---------------------------- MODULE Spec2Model ----------------------------
(***************************************************************************)
(* A model of the fare validator server (src/server/app.py) and of the     *)
(* terminal's reading of its answers (src/client/src).                     *)
(*                                                                         *)
(* The card store is the Firestore collection "cards".  Every HTTP handler *)
(* is a sequence of steps, one step per store call (get, update, set,      *)
(* delete): the server is threaded, so the steps of two requests           *)
(* interleave.  The wall clock is a variable; every datetime.now() of the  *)
(* code reads it at the step that holds the call.                          *)
(***************************************************************************)
EXTENDS Integers, Sequences, FiniteSets, TLC

\* ---------------------------------------------------------------- bounds

\* Days of the modelled calendar: 0 .. MaxDay.
MaxDay == 1
\* The largest balance a create or a top-up may produce in the model.
MaxCredits == 2
\* The starting balance of the round trip (SpecRT).
RoundTripCredits == 10

\* ------------------------------------------------------ program constants

\* app.py:172  time_diff.total_seconds() < 3600
Cooldown == 3600
\* datetime.date(): the calendar day of a timestamp
SecondsPerDay == 86400

\* Request workers: Flask serves each request on a thread of its own.
Slots == {"w1", "w2"}

\* Card UIDs as the requests carry them, and as the store keys them.
RawUIDs == {"a1", "A1"}
\* card_uid.upper()  (app.py:138)
Upper(uid) == IF uid = "a1" THEN "A1" ELSE uid
UIDs == {Upper(u) : u \in RawUIDs}

\* The instants at which the clock is observed: the seconds Offsets of
\* every day of the calendar.
InstantsOf(Offsets) == {d * SecondsPerDay + o : d \in 0..MaxDay, o \in Offsets}

\* ------------------------------------------------------------ date values

\* An expiration_date string: "" (fmt empty), a YYYY-MM-DD date (fmt iso,
\* the day it names), any other text (fmt bad), or JSON null (fmt null).
EmptyDate == [fmt |-> "empty", day |-> 0]
BadDate == [fmt |-> "bad", day |-> 0]
NullDate == [fmt |-> "null", day |-> 0]
IsoDate(d) == [fmt |-> "iso", day |-> d]

\* Python truthiness of the string: "" and None are falsy.
Truthy(e) == e.fmt \notin {"empty", "null"}

\* datetime.strptime(e, "%Y-%m-%d").date(): the date, or ValueError.
Strptime(e) == IF e.fmt = "iso" THEN [ok |-> TRUE, day |-> e.day]
               ELSE [ok |-> FALSE, day |-> 0]

\* datetime.now().date() of a clock reading.
DateOf(t) == t \div SecondsPerDay

\* last_scan: "" (never scanned) or datetime.now().isoformat() of a clock
\* reading; fromisoformat gives the reading back.
NoScan == -1
NoTime == -1

\* An expiration check that never finds a card expired.
ExpiredAtNever(e, t) == FALSE
\* The comparison of the expiration check turned round.
ExpiredAtReversed(e, t) == Truthy(e) /\ Strptime(e).ok /\ Strptime(e).day > DateOf(t)
\* exp_date < datetime.now().date(), ValueError read as not expired
\* (app.py:157-164, 249-254).
ExpiredAt(e, t) == Truthy(e) /\ Strptime(e).ok /\ Strptime(e).day < DateOf(t)

\* A scan that never finds a card inside its cooldown window.
InCooldownNever(last_scan, t) == FALSE
\* A cooldown that still holds at exactly one hour.
InCooldownInclusive(last_scan, t) == last_scan # NoScan /\ t - last_scan <= Cooldown
\* A cooldown measured against 60 (minutes taken for seconds).
InCooldownMinutes(last_scan, t) == last_scan # NoScan /\ t - last_scan < 60
\* (datetime.now() - last_scan_time).total_seconds() < 3600  (app.py:168-173)
InCooldown(last_scan, t) == last_scan # NoScan /\ t - last_scan < Cooldown

\* ------------------------------------------------------------- the store

\* A document of the collection; exists = FALSE is doc.exists == False.
Missing == [exists |-> FALSE, status |-> "", credits |-> 0,
            expiration_date |-> EmptyDate, last_scan |-> NoScan]

\* create_card's doc_ref.set({...}) (app.py:445-450): no last_scan field.
NewCard(credits, e) == [exists |-> TRUE, status |-> "VALID", credits |-> credits,
                        expiration_date |-> e, last_scan |-> NoScan]

\* ------------------------------------------------------------ responses

NoResp == [code |-> 0, status |-> "", credits |-> 0,
           expiration_date |-> NullDate, error |-> ""]
Resp(code, status, credits, e, error) ==
    [code |-> code, status |-> status, credits |-> credits,
     expiration_date |-> e, error |-> error]
\* jsonify({"error": ...}), code  of the admin handlers and of the 500 path
ErrResp(code, error) == Resp(code, "", 0, NullDate, error)
OkResp(code) == Resp(code, "OK", 0, NullDate, "")

\* The 404 answer of scan_card_info (app.py:204-209).
CardNotFoundResp == Resp(404, "INVALID", 0, NullDate, "Card not found")

\* A terminal that reads every answer as a 200, whatever its status code.
ValidateCardAnyCode(r) ==
    [success |-> TRUE, status |-> IF r.status = "" THEN "OK" ELSE r.status,
     credits |-> r.credits, expiration_date |-> r.expiration_date, error |-> ""]
\* A terminal that reads 404 like any other failure.
ValidateCardNo404(r) ==
    IF r.code = 200
    THEN [success |-> TRUE, status |-> r.status, credits |-> r.credits,
          expiration_date |-> r.expiration_date, error |-> ""]
    ELSE [success |-> FALSE, status |-> "ERROR", credits |-> 0,
          expiration_date |-> NullDate, error |-> "Server returned status"]
\* ServerCommunication.validate_card's reading of an answer
\* (server_communication.py:169-198).
ValidateCard(r) ==
    IF r.code = 200
    THEN [success |-> TRUE, status |-> r.status, credits |-> r.credits,
          expiration_date |-> r.expiration_date, error |-> ""]
    ELSE IF r.code = 404
    THEN [success |-> FALSE, status |-> "UNKNOWN", credits |-> 0,
          expiration_date |-> NullDate, error |-> "Card not found"]
    ELSE [success |-> FALSE, status |-> "ERROR", credits |-> 0,
          expiration_date |-> NullDate, error |-> "Server returned status"]

\* validate_card before any answer has come back.
NoResult == [success |-> FALSE, status |-> "", credits |-> 0,
             expiration_date |-> NullDate, error |-> ""]

\* What the network does to an exchange: the answer arrives ("ok"), or
\* requests.post raises Timeout, ConnectionError or another exception
\* (an undecodable body included).
NetOutcomes == {"ok", "timeout", "connection", "other"}

\* The except clauses of validate_card (server_communication.py:200-226).
ValidateCardException(net) ==
    [success |-> FALSE, status |-> "ERROR", credits |-> 0,
     expiration_date |-> NullDate,
     error |-> IF net = "timeout" THEN "Request timeout"
               ELSE IF net = "connection" THEN "Connection error"
               ELSE "exception"]

\* The banner MainScreen.draw_banner paints for status["card_status"]
\* (screens.py:232-255): its image and its text.
DrawBanner(card_status) ==
    IF card_status = "VALID" THEN [img |-> "green", text |-> "have_a_nice_day"]
    ELSE IF card_status = "INVALID" THEN [img |-> "red", text |-> "invalid_card"]
    ELSE IF card_status = "EXPIRED" THEN [img |-> "red", text |-> "expired_card"]
    ELSE IF card_status = "INSUFFICIENT_CREDITS"
    THEN [img |-> "red", text |-> "insufficient_credits"]
    ELSE IF card_status = "LOADING" THEN [img |-> "blue", text |-> "validating"]
    ELSE IF card_status = "UNKNOWN" \/ card_status = "TRY_AGAIN"
    THEN [img |-> "red", text |-> "scan_card_again"]
    ELSE [img |-> "blue", text |-> "scan_card"]

\* status["card_status"] with no card on the reader (validator.py:51, 73).
IdleStatus == ""

\* ------------------------------------------------------ the bearer token

\* An Authorization header: absent or empty (falsy), or the words that
\* auth_header.split() yields.
NoHeader == [present |-> FALSE, words |-> <<>>]
Header(words) == [present |-> TRUE, words |-> words]

\* scheme.lower()
Lower(scheme) ==
    IF scheme \in {"Bearer", "BEARER", "bearer"} THEN "bearer"
    ELSE IF scheme \in {"Basic", "basic"} THEN "basic"
    ELSE scheme

\* A decorator that only asks for a header to be there.
RequireAnyHeader(h) == IF ~h.present THEN "Missing Authorization header" ELSE ""
\* require_bearer_token (app.py:32-51): the error it answers 401 with, ""
\* when it calls the handler.  scheme, token = auth_header.split() raises
\* ValueError unless there are exactly two words.
RequireBearerToken(h) ==
    IF ~h.present THEN "Missing Authorization header"
    ELSE IF Len(h.words) # 2 THEN "Invalid Authorization header"
    ELSE IF Lower(h.words[1]) # "bearer" THEN "Invalid Authorization scheme"
    ELSE ""

\* The header the terminal sends: f"Bearer {self.api_token}"
\* (server_communication.py:155-158).
TerminalHeader == Header(<<"Bearer", "t1">>)

\* ------------------------------------------------------------- the state

VARIABLES
    store,   \* [UIDs -> document]: the "cards" collection
    clock,   \* the wall clock, in seconds
    pc,      \* [Slots -> the step a request is at]
    req,     \* [Slots -> the request's local variables and its response]
    nscans,  \* scans completed in the round trip (SpecRT only)
    term,    \* the terminal: its status dict and the locals of its threads
    mig      \* the migration script: its locals and what it has committed

vars == <<store, clock, pc, req, nscans, term, mig>>

\* The locals of a request that has not started.
\*   stale: the stored document was written by another request after this
\*          one read it (a history variable, not a variable of the code)
\*   wrote: the store update the request applied last, "" when none
\*   stalewrite: the request applied an update while stale
\*   auth: the Authorization header of the request
\*   fault: "store" when a store call of the request raised, else the
\*          network outcome once the exchange is over, "" before
\*   result, card_status: what validate_card returned to the terminal and
\*          the status["card_status"] the terminal shows for it
NoReq == [op |-> "none", uid |-> "", card_data |-> Missing,
          auth |-> NoHeader, fault |-> "", result |-> NoResult,
          card_status |-> IdleStatus,
          current_status |-> "", current_credits |-> 0, should_deduct |-> TRUE,
          nowExp |-> NoTime, nowCool |-> NoTime, nowWrite |-> NoTime,
          amount |-> 0, new_status |-> "", new_exp |-> EmptyDate,
          stale |-> FALSE, wrote |-> "", stalewrite |-> FALSE,
          resp |-> NoResp]

InFlight(t) == pc[t] \notin {"idle", "done"}
CanStart(s) == pc[s] = "idle"

\* req after slot s takes the locals r and writes document u: every other
\* request in flight on u has now read a document that changed since.
ReqAfterWrite(s, r, u) ==
    [t \in Slots |->
        IF t = s THEN r
        ELSE IF InFlight(t) /\ req[t].uid = u
             THEN [req[t] EXCEPT !.stale = TRUE]
             ELSE req[t]]

ReqAfter(s, r) == [req EXCEPT ![s] = r]

\* The locals after slot s applied the update named w.
Wrote(r, w) == [r EXCEPT !.wrote = w, !.stalewrite = r.stale]

\* -------------------------------------------------- Firestore's document calls

\* A store whose update also creates the document (set with merge).
CanUpdateUpsert(d) == TRUE
\* doc_ref.update(...) raises NotFound when the document does not exist.
CanUpdate(d) == d.exists

\* A top-up that also validates whatever card it credits.
WithCreditsValidated(d, c) == [d EXCEPT !.exists = TRUE, !.credits = c, !.status = "VALID"]

\* doc_ref.update({"status": st})
WithStatus(d, st) == [d EXCEPT !.exists = TRUE, !.status = st]
\* A deduction that leaves the last-scan timestamp to a later write.
WithDeductionCreditsOnly(d, c, t) == [d EXCEPT !.exists = TRUE, !.credits = c]
\* doc_ref.update({"credits": c, "last_scan": t.isoformat()})
WithDeduction(d, c, t) == [d EXCEPT !.exists = TRUE, !.credits = c, !.last_scan = t]
\* doc_ref.update({"credits": c})
WithCredits(d, c) == [d EXCEPT !.exists = TRUE, !.credits = c]
\* doc_ref.update({"expiration_date": e})
WithExpiration(d, e) == [d EXCEPT !.exists = TRUE, !.expiration_date = e]

\* The except clause of every handler: jsonify({"error": str(e)}), 500.
ServerError == ErrResp(500, "exception")

\* ------------------------------------------------------- scan_card_info

\* The credit logic without its balance check.
HasCreditUnchecked(c) == TRUE
\* The credit logic refusing the last credit.
HasCreditAboveOne(c) == c > 1
\* if current_credits > 0  (app.py:181)
HasCredit(c) == c > 0

\* An answer that calls every card found VALID.
ScanRespValid(r) == Resp(200, "VALID", r.current_credits,
                         r.card_data.expiration_date, "")
\* The 200 answer (app.py:193-200).
ScanResp(r) == Resp(200, r.current_status, r.current_credits,
                    r.card_data.expiration_date, "")

\* app.py:125-153 and 201-209: the lookup, for a request with header h.
ScanStartWith(s, raw, h) ==
    /\ CanStart(s)
    /\ LET u == Upper(raw)
           doc == store[u]
           r == [NoReq EXCEPT !.op = "scan", !.uid = u, !.card_data = doc,
                              !.auth = h]
       IN IF doc.exists
          THEN /\ pc' = [pc EXCEPT ![s] = "scan_expire"]
               /\ req' = ReqAfter(s, [r EXCEPT !.current_status = doc.status,
                                               !.current_credits = doc.credits])
          ELSE /\ pc' = [pc EXCEPT ![s] = "done"]
               /\ req' = ReqAfter(s, [r EXCEPT !.resp = CardNotFoundResp])
    /\ UNCHANGED <<store, clock, nscans, term, mig>>

\* A scan sent by the terminal.
ScanStart(s, raw) == ScanStartWith(s, raw, TerminalHeader)

\* app.py:155-164: the expiration check.
ScanExpire(s) ==
    /\ pc[s] = "scan_expire"
    /\ LET r == req[s]
           u == r.uid
           e == r.card_data.expiration_date
           checked == Truthy(e) /\ r.current_status = "VALID"
           r1 == IF checked /\ Strptime(e).ok THEN [r EXCEPT !.nowExp = clock] ELSE r
       IN IF checked /\ ExpiredAt(e, clock)
          THEN IF CanUpdate(store[u])
               THEN /\ store' = [store EXCEPT ![u] = WithStatus(@, "EXPIRED")]
                    /\ req' = ReqAfterWrite(s,
                                 Wrote([r1 EXCEPT !.current_status = "EXPIRED"], "expired"), u)
                    /\ pc' = [pc EXCEPT ![s] = "scan_cooldown"]
               ELSE /\ store' = store
                    /\ req' = ReqAfter(s, [r1 EXCEPT !.resp = ServerError])
                    /\ pc' = [pc EXCEPT ![s] = "done"]
          ELSE /\ store' = store
               /\ req' = ReqAfter(s, r1)
               /\ pc' = [pc EXCEPT ![s] = "scan_cooldown"]
    /\ UNCHANGED <<clock, nscans, term, mig>>

\* app.py:166-177: the cooldown check.
ScanCooldown(s) ==
    /\ pc[s] = "scan_cooldown"
    /\ LET r == req[s]
           ls == r.card_data.last_scan
       IN IF ls # NoScan /\ r.current_status = "VALID"
          THEN req' = ReqAfter(s, [r EXCEPT !.nowCool = clock,
                                           !.should_deduct = ~InCooldown(ls, clock)])
          ELSE req' = req
    /\ pc' = [pc EXCEPT ![s] = "scan_credit"]
    /\ UNCHANGED <<store, clock, nscans, term, mig>>

\* app.py:179-200: the credit logic and the answer.
ScanCreditStep(s) ==
    /\ pc[s] = "scan_credit"
    /\ LET r == req[s]
           u == r.uid
       IN IF r.current_status = "VALID" /\ r.should_deduct
          THEN IF ~CanUpdate(store[u])
               THEN /\ store' = store
                    /\ req' = ReqAfter(s, [r EXCEPT !.resp = ServerError])
               ELSE IF HasCredit(r.current_credits)
               THEN LET r1 == [r EXCEPT !.current_credits = @ - 1, !.nowWrite = clock]
                    IN /\ store' = [store EXCEPT ![u] =
                                       WithDeduction(@, r1.current_credits, clock)]
                       /\ req' = ReqAfterWrite(s,
                                    Wrote([r1 EXCEPT !.resp = ScanResp(r1)], "deduct"), u)
               ELSE LET r1 == [r EXCEPT !.current_status = "INVALID"]
                    IN /\ store' = [store EXCEPT ![u] = WithStatus(@, "INVALID")]
                       /\ req' = ReqAfterWrite(s,
                                    Wrote([r1 EXCEPT !.resp = ScanResp(r1)], "invalid"), u)
          ELSE /\ store' = store
               /\ req' = ReqAfter(s, [r EXCEPT !.resp = ScanResp(r)])
    /\ pc' = [pc EXCEPT ![s] = "done"]
    /\ UNCHANGED clock

ScanCredit(s) == ScanCreditStep(s) /\ UNCHANGED <<nscans, term, mig>>

\* The same step, counted (the round trip).
ScanCreditCounted(s) == ScanCreditStep(s) /\ nscans' = nscans + 1 /\ UNCHANGED <<term, mig>>

\* A store call of the scan raises (the store is unreachable, or db is None
\* because the service account key is missing, app.py:23-29): the except
\* clause answers 500 (app.py:211-213).
Faulted(r) == [r EXCEPT !.fault = "store", !.resp = ServerError]

\* doc_ref.get() raises (app.py:144-145).
ScanGetFault(s, raw) ==
    /\ CanStart(s)
    /\ req' = ReqAfter(s, Faulted([NoReq EXCEPT !.op = "scan", !.uid = Upper(raw),
                                                !.auth = TerminalHeader]))
    /\ pc' = [pc EXCEPT ![s] = "done"]
    /\ UNCHANGED <<store, clock, nscans, term, mig>>

\* doc_ref.update({"status": "EXPIRED"}) raises (app.py:161).
ScanExpireFault(s) ==
    /\ pc[s] = "scan_expire"
    /\ LET r == req[s]
           e == r.card_data.expiration_date
       IN /\ Truthy(e) /\ r.current_status = "VALID" /\ ExpiredAt(e, clock)
          /\ req' = ReqAfter(s, Faulted([r EXCEPT !.nowExp = clock,
                                                  !.current_status = "EXPIRED"]))
    /\ pc' = [pc EXCEPT ![s] = "done"]
    /\ UNCHANGED <<store, clock, nscans, term, mig>>

\* The doc_ref.update of the credit logic raises (app.py:183, 190).
ScanCreditFault(s) ==
    /\ pc[s] = "scan_credit"
    /\ LET r == req[s]
       IN /\ r.current_status = "VALID" /\ r.should_deduct
          /\ req' = ReqAfter(s, Faulted(r))
    /\ pc' = [pc EXCEPT ![s] = "done"]
    /\ UNCHANGED <<store, clock, nscans, term, mig>>

\* ------------------------------------------------- the decorated routes

\* require_bearer_token answers 401 and the handler is not called
\* (app.py:37-45).
Rejected(s, op, h) ==
    /\ CanStart(s)
    /\ RequireBearerToken(h) # ""
    /\ req' = ReqAfter(s, [NoReq EXCEPT !.op = op, !.auth = h,
                                        !.resp = ErrResp(401, RequireBearerToken(h))])
    /\ pc' = [pc EXCEPT ![s] = "done"]
    /\ UNCHANGED <<store, clock, nscans, term, mig>>

\* POST /validator/scanCardInfo with header h (app.py:98-100).
ScanRequest(s, h, raw) ==
    \/ Rejected(s, "scan", h)
    \/ RequireBearerToken(h) = "" /\ ScanStartWith(s, raw, h)

\* POST /validator/pingStatus with header h; line says whether the body
\* names a line (app.py:54-95).  The handler makes no store call.
PingRequest(s, h, line) ==
    \/ Rejected(s, "ping", h)
    \/ /\ RequireBearerToken(h) = ""
       /\ CanStart(s)
       /\ req' = ReqAfter(s, [NoReq EXCEPT !.op = "ping", !.auth = h,
                               !.resp = IF line THEN OkResp(200)
                                        ELSE ErrResp(400, "Missing line_name")])
       /\ pc' = [pc EXCEPT ![s] = "done"]
       /\ UNCHANGED <<store, clock, nscans, term, mig>>

\* ------------------------------------------------------------ the terminal

\* validate_card returns (server_communication.py:169-226) and
\* on_card_detected stores the status it carries (validator.py:63-65).
Deliver(s, net) ==
    /\ pc[s] = "done"
    /\ req[s].op = "scan"
    /\ req[s].result = NoResult
    /\ LET r == req[s]
           result == IF net = "ok" THEN ValidateCard(r.resp)
                     ELSE ValidateCardException(net)
       IN req' = ReqAfter(s, [r EXCEPT !.result = result,
                                      !.card_status = result.status,
                                      !.fault = IF r.fault = "" /\ net # "ok"
                                                THEN net ELSE r.fault])
    /\ UNCHANGED <<store, clock, pc, nscans, term, mig>>

\* ---------------------------------------------------------- create_card

\* app.py:427-437: the validation of the body; "" when it passes.
CreateError(credits, e, t) ==
    IF credits < 0 THEN "Credits cannot be negative"
    ELSE IF ~Truthy(e) THEN ""
    ELSE IF ~Strptime(e).ok THEN "Invalid date format. Use YYYY-MM-DD"
    ELSE IF Strptime(e).day < DateOf(t) THEN "Expiration date cannot be in the past"
    ELSE ""

\* app.py:414-442: validation, then the existence check.
CreateStart(s, raw, credits, e) ==
    /\ CanStart(s)
    /\ LET u == Upper(raw)
           r == [NoReq EXCEPT !.op = "create", !.uid = u, !.amount = credits,
                              !.new_exp = e]
           err == CreateError(credits, e, clock)
       IN IF err # ""
          THEN /\ pc' = [pc EXCEPT ![s] = "done"]
               /\ req' = ReqAfter(s, [NoReq EXCEPT !.op = "create", !.uid = u,
                                                   !.resp = ErrResp(400, err)])
          ELSE IF store[u].exists
          THEN /\ pc' = [pc EXCEPT ![s] = "done"]
               /\ req' = ReqAfter(s, [r EXCEPT !.resp = ErrResp(409, "Card already exists")])
          ELSE /\ pc' = [pc EXCEPT ![s] = "create_set"]
               /\ req' = ReqAfter(s, r)
    /\ UNCHANGED <<store, clock, nscans, term, mig>>

\* app.py:444-453: doc_ref.set(...) writes the document whatever is stored.
CreateSet(s) ==
    /\ pc[s] = "create_set"
    /\ LET r == req[s]
       IN /\ store' = [store EXCEPT ![r.uid] = NewCard(r.amount, r.new_exp)]
          /\ req' = ReqAfterWrite(s, Wrote([r EXCEPT !.resp = OkResp(201)], "set"), r.uid)
    /\ pc' = [pc EXCEPT ![s] = "done"]
    /\ UNCHANGED <<clock, nscans, term, mig>>

\* ---------------------------------------------------------- delete_card

\* app.py:464-468
DeleteStart(s, raw) ==
    /\ CanStart(s)
    /\ LET u == Upper(raw)
           r == [NoReq EXCEPT !.op = "delete", !.uid = u]
       IN IF store[u].exists
          THEN /\ pc' = [pc EXCEPT ![s] = "delete_do"]
               /\ req' = ReqAfter(s, r)
          ELSE /\ pc' = [pc EXCEPT ![s] = "done"]
               /\ req' = ReqAfter(s, [r EXCEPT !.resp = ErrResp(404, "Card not found")])
    /\ UNCHANGED <<store, clock, nscans, term, mig>>

\* app.py:470-473: doc_ref.delete() succeeds on a document already gone.
DeleteDo(s) ==
    /\ pc[s] = "delete_do"
    /\ LET r == req[s]
       IN /\ store' = [store EXCEPT ![r.uid] = Missing]
          /\ req' = ReqAfterWrite(s, Wrote([r EXCEPT !.resp = OkResp(200)], "delete"), r.uid)
    /\ pc' = [pc EXCEPT ![s] = "done"]
    /\ UNCHANGED <<clock, nscans, term, mig>>

\* ----------------------------------------------------------- top_up_card

\* app.py:364-377: the amount check and the read; doc.to_dict() is read for
\* its credits (line 380) and its status (line 389).
TopUpStart(s, raw, amount) ==
    /\ CanStart(s)
    /\ LET u == Upper(raw)
           r == [NoReq EXCEPT !.op = "topup", !.uid = u, !.amount = amount]
       IN IF amount <= 0
          THEN /\ pc' = [pc EXCEPT ![s] = "done"]
               /\ req' = ReqAfter(s, [r EXCEPT !.resp = ErrResp(400, "Invalid amount")])
          ELSE IF ~store[u].exists
          THEN /\ pc' = [pc EXCEPT ![s] = "done"]
               /\ req' = ReqAfter(s, [r EXCEPT !.resp = ErrResp(404, "Card not found")])
          ELSE /\ store[u].credits + amount <= MaxCredits
               /\ pc' = [pc EXCEPT ![s] = "topup_credits"]
               /\ req' = ReqAfter(s, [r EXCEPT !.current_status = store[u].status,
                                               !.current_credits = store[u].credits])
    /\ UNCHANGED <<store, clock, nscans, term, mig>>

\* app.py:379-385: new_credits = current_credits + amount, written back.
TopUpCredits(s) ==
    /\ pc[s] = "topup_credits"
    /\ LET r == req[s]
           u == r.uid
           r1 == [r EXCEPT !.current_credits = @ + r.amount]
       IN IF CanUpdate(store[u])
          THEN /\ store' = [store EXCEPT ![u] = WithCredits(@, r1.current_credits)]
               /\ req' = ReqAfterWrite(s, Wrote(r1, "credits"), u)
               /\ pc' = [pc EXCEPT ![s] = "topup_status"]
          ELSE /\ store' = store
               /\ req' = ReqAfter(s, [r EXCEPT !.resp = ServerError])
               /\ pc' = [pc EXCEPT ![s] = "done"]
    /\ UNCHANGED <<clock, nscans, term, mig>>

\* app.py:387-394: the card read as INVALID is made VALID again.
TopUpStatus(s) ==
    /\ pc[s] = "topup_status"
    /\ LET r == req[s]
           u == r.uid
           ok == [r EXCEPT !.resp = Resp(200, "OK", r.current_credits, NullDate, "")]
       IN IF r.current_status = "INVALID"
          THEN IF CanUpdate(store[u])
               THEN /\ store' = [store EXCEPT ![u] = WithStatus(@, "VALID")]
                    /\ req' = ReqAfterWrite(s, Wrote(ok, "valid"), u)
               ELSE /\ store' = store
                    /\ req' = ReqAfter(s, [r EXCEPT !.resp = ServerError])
          ELSE /\ store' = store
               /\ req' = ReqAfter(s, ok)
    /\ pc' = [pc EXCEPT ![s] = "done"]
    /\ UNCHANGED <<clock, nscans, term, mig>>

\* ---------------------------------------------------- update_card_status

\* app.py:229-254: the read, and the refusal to validate an expired card.
StatusStart(s, raw, st) ==
    /\ CanStart(s)
    /\ LET u == Upper(raw)
           r == [NoReq EXCEPT !.op = "status", !.uid = u, !.new_status = st]
       IN IF ~store[u].exists
          THEN /\ pc' = [pc EXCEPT ![s] = "done"]
               /\ req' = ReqAfter(s, [r EXCEPT !.resp = ErrResp(404, "Card not found")])
          ELSE IF st = "VALID" /\ ExpiredAt(store[u].expiration_date, clock)
          THEN /\ pc' = [pc EXCEPT ![s] = "done"]
               /\ req' = ReqAfter(s, [r EXCEPT !.nowExp = clock,
                                   !.resp = ErrResp(400, "Cannot validate expired card")])
          ELSE /\ pc' = [pc EXCEPT ![s] = "status_update"]
               /\ req' = ReqAfter(s, r)
    /\ UNCHANGED <<store, clock, nscans, term, mig>>

\* app.py:256-259
StatusUpdate(s) ==
    /\ pc[s] = "status_update"
    /\ LET r == req[s]
           u == r.uid
       IN IF CanUpdate(store[u])
          THEN /\ store' = [store EXCEPT ![u] = WithStatus(@, r.new_status)]
               /\ req' = ReqAfterWrite(s, Wrote([r EXCEPT !.resp = OkResp(200)], "status"), u)
          ELSE /\ store' = store
               /\ req' = ReqAfter(s, [r EXCEPT !.resp = ServerError])
    /\ pc' = [pc EXCEPT ![s] = "done"]
    /\ UNCHANGED <<clock, nscans, term, mig>>

\* ------------------------------------------------ update_card_expiration

\* app.py:277-289: only a missing (falsy) date is refused.
ExpirationStart(s, raw, e) ==
    /\ CanStart(s)
    /\ LET u == Upper(raw)
           r == [NoReq EXCEPT !.op = "expiration", !.uid = u, !.new_exp = e]
       IN IF ~Truthy(e)
          THEN /\ pc' = [pc EXCEPT ![s] = "done"]
               /\ req' = ReqAfter(s, [r EXCEPT !.resp = ErrResp(400, "Missing expiration_date")])
          ELSE IF ~store[u].exists
          THEN /\ pc' = [pc EXCEPT ![s] = "done"]
               /\ req' = ReqAfter(s, [r EXCEPT !.resp = ErrResp(404, "Card not found")])
          ELSE /\ pc' = [pc EXCEPT ![s] = "exp_update"]
               /\ req' = ReqAfter(s, r)
    /\ UNCHANGED <<store, clock, nscans, term, mig>>

\* app.py:291-294
ExpirationUpdate(s) ==
    /\ pc[s] = "exp_update"
    /\ LET r == req[s]
           u == r.uid
       IN IF CanUpdate(store[u])
          THEN /\ store' = [store EXCEPT ![u] = WithExpiration(@, r.new_exp)]
               /\ req' = ReqAfterWrite(s, Wrote([r EXCEPT !.resp = OkResp(200)], "expiration"), u)
          ELSE /\ store' = store
               /\ req' = ReqAfter(s, [r EXCEPT !.resp = ServerError])
    /\ pc' = [pc EXCEPT ![s] = "done"]
    /\ UNCHANGED <<clock, nscans, term, mig>>

\* ------------------------------------------------------------- the clock

\* Time passes to a later instant.
Tick(t) ==
    /\ t > clock
    /\ clock' = t
    /\ UNCHANGED <<store, pc, req, nscans, term, mig>>

\* The answer leaves the server and the worker is free again.
Return(s) ==
    /\ pc[s] = "done"
    /\ pc' = [pc EXCEPT ![s] = "idle"]
    /\ req' = [req EXCEPT ![s] = NoReq]
    /\ UNCHANGED <<store, clock, nscans, term, mig>>

\* ------------------------------------------------------------ the terminal

\* The bounds of the terminal's history: the successful pings counted and
\* the cards presented to the reader.
MaxPings == 3
MaxPresented == 3

\* What clf.sense returns (nfc_reader.py:102): a target, named here by its
\* sdd_res, or None.
Targets == {"a1", "b2"}
NoTarget == "none"
\* NFCReader._extract_uid: target.sdd_res.hex().upper()
ExtractUid(target) == IF target = "a1" THEN "A1" ELSE "B2"
\* current_uid = None, status["last_card_uid"] = None
NoUid == "None"

\* What validate_card may hand to on_card_detected: its reading of an
\* answer of scan_card_info, or of an exchange that failed.
TermAnswers ==
    {Resp(200, st, 1, NullDate, "") : st \in {"VALID", "INVALID", "EXPIRED"}}
    \cup {CardNotFoundResp, ServerError}
TermResults ==
    {ValidateCard(r) : r \in TermAnswers} \cup {ValidateCardException("timeout")}

\* The answers a ping may get, and ServerCommunication._ping_server
\* (server_communication.py:89-129): True for a 200 that arrived.
PingCodes == {200, 401, 500}
PingServer(code, net) == net = "ok" /\ code = 200

\* The ping threads that start() may create, and ping_thread = None.
MaxLoops == 2
Loops == 1..MaxLoops
NoThread == 0

\* The terminal at start (validator.py:47-54, nfc_reader.py __init__,
\* server_communication.py:48).
\*   rpc: where the reader thread is: "sense" (at clf.sense), "validate"
\*        (in on_card_detected, waiting for validate_card), "publish"
\*        (between validator.py:64 and 65)
\*   gpc: where the GUI thread is in draw_validation_status; seen_* are its
\*        locals card_status and validation
\*   field: the target in the reader field (the environment)
\*   history variables, not variables of the code: scan (calls of
\*        card_callback so far), status_scan and validation_scan (the call
\*        that wrote card_status and last_validation), presented, calls
\*        (calls of card_callback since the card in the field was
\*        presented), owed (removals of a detected card not yet answered
\*        by a call of card_removed_callback), sensed (the reader has
\*        polled since the field last changed)
\*   running, ping_thread: the fields of ServerCommunication; loop: where
\*        each ping thread is: "none" (not created), "check" (at while
\*        self.running), "ping" (in the loop body), "sleep", "ended";
\*        mpc: where the thread calling start() and stop() is: "idle", or
\*        "join" (in stop, at ping_thread.join)
TermInit ==
    [consecutive_pings |-> 0, connected |-> FALSE, ready |-> FALSE,
     field |-> NoTarget, current_uid |-> NoUid, rpc |-> "sense",
     last_card_uid |-> NoUid, card_active |-> FALSE,
     card_status |-> IdleStatus, last_validation |-> NoResult,
     scan |-> 0, status_scan |-> 0, validation_scan |-> 0,
     presented |-> 0, calls |-> 0, owed |-> 0, sensed |-> FALSE,
     gpc |-> "idle", seen_status |-> IdleStatus,
     seen_status_scan |-> 0, seen_validation_scan |-> 0,
     running |-> FALSE, ping_thread |-> NoThread,
     loop |-> [i \in Loops |-> "none"], mpc |-> "idle"]

\* The variables of the server.
srv == <<store, clock, pc, req, nscans, mig>>

\* One turn of ServerCommunication._ping_loop
\* (server_communication.py:67-87).
PingLoop(code, net) ==
    /\ IF PingServer(code, net)
       THEN /\ term.consecutive_pings < MaxPings
            /\ term' = [term EXCEPT !.consecutive_pings = @ + 1,
                                    !.connected = TRUE, !.ready = TRUE]
       ELSE term' = [term EXCEPT !.consecutive_pings = 0,
                                 !.connected = FALSE, !.ready = FALSE]
    /\ UNCHANGED srv

\* ServerCommunication.is_ready (server_communication.py:237-244)
IsReady == term.ready

\* ServerCommunication.start (server_communication.py:52-58): a no-op
\* while running, else running is set and a new ping thread is started.
Start ==
    /\ term.mpc = "idle"
    /\ IF term.running
       THEN term' = term
       ELSE /\ term.ping_thread < MaxLoops
            /\ term' = [term EXCEPT !.running = TRUE,
                                    !.ping_thread = @ + 1,
                                    !.loop[term.ping_thread + 1] = "check"]
    /\ UNCHANGED srv

\* ServerCommunication.stop up to the join
\* (server_communication.py:60-64).
StopBegin ==
    /\ term.mpc = "idle"
    /\ term' = [term EXCEPT !.running = FALSE,
                            !.mpc = IF term.ping_thread # NoThread
                                    THEN "join" ELSE "idle"]
    /\ UNCHANGED srv

\* ping_thread.join(timeout=2) returns (server_communication.py:64): the
\* thread has ended, or two seconds have passed while it sleeps
\* ping_interval seconds or waits for its ping.
JoinReturns ==
    /\ term.mpc = "join"
    /\ term' = [term EXCEPT !.mpc = "idle"]
    /\ UNCHANGED srv

\* while self.running (server_communication.py:69)
LoopCheck(i) ==
    /\ term.loop[i] = "check"
    /\ term' = [term EXCEPT !.loop[i] = IF term.running THEN "ping" ELSE "ended"]
    /\ UNCHANGED srv

\* The body of the loop of ping thread i (server_communication.py:70-85).
LoopPing(i, code, net) ==
    /\ term.loop[i] = "ping"
    /\ IF PingServer(code, net)
       THEN /\ term.consecutive_pings < MaxPings
            /\ term' = [term EXCEPT !.consecutive_pings = @ + 1,
                                    !.connected = TRUE, !.ready = TRUE,
                                    !.loop[i] = "sleep"]
       ELSE term' = [term EXCEPT !.consecutive_pings = 0,
                                 !.connected = FALSE, !.ready = FALSE,
                                 !.loop[i] = "sleep"]
    /\ UNCHANGED srv

\* time.sleep(self.ping_interval) is over (server_communication.py:87).
LoopWake(i) ==
    /\ term.loop[i] = "sleep"
    /\ term' = [term EXCEPT !.loop[i] = "check"]
    /\ UNCHANGED srv

\* A card is held to the reader.
Present(t) ==
    /\ term.field = NoTarget
    /\ term.presented < MaxPresented
    /\ term' = [term EXCEPT !.field = t, !.presented = @ + 1, !.calls = 0,
                            !.sensed = FALSE]
    /\ UNCHANGED srv

\* The card is taken away.
Remove ==
    /\ term.field # NoTarget
    /\ term' = [term EXCEPT !.field = NoTarget, !.sensed = FALSE,
                            !.owed = IF term.calls > 0 THEN @ + 1 ELSE @]
    /\ UNCHANGED srv

\* nfc_reader.py:102-113 with validator.py:56-61: sense finds a target; a
\* UID other than current_uid is recorded and card_callback is called,
\* which shows LOADING and goes to the server.
SenseCard ==
    /\ term.rpc = "sense"
    /\ term.field # NoTarget
    /\ LET uid == ExtractUid(term.field)
       IN IF uid # term.current_uid
          THEN term' = [term EXCEPT !.current_uid = uid,
                                    !.rpc = "validate",
                                    !.last_card_uid = uid,
                                    !.card_active = TRUE,
                                    !.card_status = "LOADING",
                                    !.scan = @ + 1,
                                    !.status_scan = term.scan + 1,
                                    !.calls = @ + 1,
                                    !.sensed = TRUE]
          ELSE term' = [term EXCEPT !.sensed = TRUE]
    /\ UNCHANGED srv

\* nfc_reader.py:114-119 with validator.py:69-73: sense finds nothing;
\* if a card is recorded, card_removed_callback is called and, when it
\* has returned, current_uid is cleared.  A callback that raises leaves
\* current_uid as it is (nfc_reader.py:120-121).
SenseEmpty(raised) ==
    /\ term.rpc = "sense"
    /\ term.field = NoTarget
    /\ IF term.current_uid = NoUid
       THEN /\ ~raised
            /\ term' = [term EXCEPT !.sensed = TRUE]
       ELSE IF raised
       THEN /\ term.owed >= 0
            /\ term' = [term EXCEPT !.owed = @ - 1, !.sensed = TRUE]
       ELSE term' = [term EXCEPT !.card_active = FALSE,
                                 !.card_status = IdleStatus,
                                 !.status_scan = 0,
                                 !.current_uid = NoUid,
                                 !.owed = @ - 1,
                                 !.sensed = TRUE]
    /\ UNCHANGED srv

\* validator.py:63-64: validate_card returns and its result is stored.
ValidateReturns(result) ==
    /\ term.rpc = "validate"
    /\ term' = [term EXCEPT !.last_validation = result,
                            !.validation_scan = term.scan,
                            !.rpc = "publish"]
    /\ UNCHANGED srv

\* validator.py:65: card_status becomes the status of the result.
PublishStatus ==
    /\ term.rpc = "publish"
    /\ term' = [term EXCEPT !.card_status = term.last_validation.status,
                            !.status_scan = term.scan,
                            !.rpc = "sense"]
    /\ UNCHANGED srv

\* card_callback raises: the reader logs it and senses again
\* (nfc_reader.py:120-121).
CallbackRaises ==
    /\ term.rpc = "validate"
    /\ term' = [term EXCEPT !.rpc = "sense"]
    /\ UNCHANGED srv

\* screens.py:177: the GUI thread reads card_status.
ReadCardStatus ==
    /\ term.gpc \in {"idle", "drawn"}
    /\ term' = [term EXCEPT !.seen_status = term.card_status,
                            !.seen_status_scan = term.status_scan,
                            !.gpc = "status_read"]
    /\ UNCHANGED srv

\* screens.py:178: the GUI thread reads last_validation.
ReadLastValidation ==
    /\ term.gpc = "status_read"
    /\ term' = [term EXCEPT !.seen_validation_scan = term.validation_scan,
                            !.gpc = "drawn"]
    /\ UNCHANGED srv

\* ----------------------------------------------------------- the migration

\* The cards that cards.json may hold.
MaxCards == 801

\* count % 400 == 0 (migrate_to_firebase.py:43), and the number of writes
\* Firestore accepts in one batch (migrate_to_firebase.py:42).
BatchEvery == 400
BatchLimit == 500

\* A script that commits its last batch whatever is in it.
FinalCommitAlways(count) == TRUE

\* if count % 400 == 0  (migrate_to_firebase.py:43)
CommitDue(count) == count % BatchEvery = 0
\* if count % 400 != 0  (migrate_to_firebase.py:48)
FinalCommitDue(count) == count % BatchEvery # 0

\* The script before cards.json is loaded (migrate_to_firebase.py:28-36).
\*   at: "load", "loop" (at the for), "check" (at line 43), "done"
\*   n: len(cards_data); count: the script's count; queued: the writes in
\*   the current batch
\*   history variables, not variables of the code: committed (cards in
\*   the batches committed), commits (batches committed), largest (the
\*   most writes in one committed batch)
MigInit ==
    [at |-> "load", n |-> 0, count |-> 0, queued |-> 0,
     committed |-> 0, commits |-> 0, largest |-> 0]

\* batch.commit() followed by a new, empty batch.
Committed(m) ==
    [m EXCEPT !.committed = @ + m.queued,
              !.commits = @ + 1,
              !.largest = IF m.queued > @ THEN m.queued ELSE @,
              !.queued = 0]

\* The other variables of the model.
nomig == <<store, clock, pc, req, nscans, term>>

\* migrate_to_firebase.py:28-36: cards.json holds n cards.
MigLoad(n) ==
    /\ mig.at = "load"
    /\ mig' = [mig EXCEPT !.n = n, !.at = "loop"]
    /\ UNCHANGED nomig

\* migrate_to_firebase.py:37-40: the next card is queued in the batch.
MigSet ==
    /\ mig.at = "loop"
    /\ mig.count < mig.n
    /\ mig' = [mig EXCEPT !.queued = @ + 1, !.count = @ + 1, !.at = "check"]
    /\ UNCHANGED nomig

\* migrate_to_firebase.py:43-46: the batch is committed when it is due.
MigCheck ==
    /\ mig.at = "check"
    /\ mig' = IF CommitDue(mig.count)
              THEN [Committed(mig) EXCEPT !.at = "loop"]
              ELSE [mig EXCEPT !.at = "loop"]
    /\ UNCHANGED nomig

\* migrate_to_firebase.py:48-51: after the last card, the rest of the
\* batch is committed.
MigFinal ==
    /\ mig.at = "loop"
    /\ mig.count = mig.n
    /\ mig' = IF FinalCommitDue(mig.count)
              THEN [Committed(mig) EXCEPT !.at = "done"]
              ELSE [mig EXCEPT !.at = "done"]
    /\ UNCHANGED nomig

\* ----------------------------------------------------- the specifications

Init ==
    /\ store = [u \in UIDs |-> Missing]
    /\ clock = 0
    /\ pc = [s \in Slots |-> "idle"]
    /\ req = [s \in Slots |-> NoReq]
    /\ nscans = 0
    /\ term = TermInit
    /\ mig = MigInit

NoneDone == \A s \in Slots : pc[s] # "done"
AllIdle == \A s \in Slots : pc[s] = "idle"

\* Spec: two workers serve any requests concurrently.  The clock is seen at
\* the start of each day; request bodies are drawn from the sets below.
Instants == InstantsOf({0})
CreditInputs == -1..MaxCredits
AmountInputs == 0..MaxCredits
DateInputs == {EmptyDate} \cup {IsoDate(d) : d \in 0..(MaxDay - 1)}
StatusInputs == {"VALID", "INVALID", "EXPIRED"}

\* Sending an answer touches nothing shared, so it commutes with every
\* other step: it is taken first, which keeps one answer in view at a time.
Next ==
    \/ \E s \in Slots : Return(s)
    \/ NoneDone /\ \E t \in Instants : Tick(t)
    \/ NoneDone /\ \E s \in Slots, raw \in RawUIDs : ScanStart(s, raw)
    \/ NoneDone /\ \E s \in Slots : ScanExpire(s)
    \/ NoneDone /\ \E s \in Slots : ScanCooldown(s)
    \/ NoneDone /\ \E s \in Slots : ScanCredit(s)
    \/ NoneDone /\ \E s \in Slots, raw \in RawUIDs, c \in CreditInputs, e \in DateInputs :
          CreateStart(s, raw, c, e)
    \/ NoneDone /\ \E s \in Slots : CreateSet(s)
    \/ NoneDone /\ \E s \in Slots, raw \in RawUIDs : DeleteStart(s, raw)
    \/ NoneDone /\ \E s \in Slots : DeleteDo(s)
    \/ NoneDone /\ \E s \in Slots, raw \in RawUIDs, a \in AmountInputs : TopUpStart(s, raw, a)
    \/ NoneDone /\ \E s \in Slots : TopUpCredits(s)
    \/ NoneDone /\ \E s \in Slots : TopUpStatus(s)
    \/ NoneDone /\ \E s \in Slots, raw \in RawUIDs, st \in StatusInputs : StatusStart(s, raw, st)
    \/ NoneDone /\ \E s \in Slots : StatusUpdate(s)
    \/ NoneDone /\ \E s \in Slots, raw \in RawUIDs, e \in DateInputs : ExpirationStart(s, raw, e)
    \/ NoneDone /\ \E s \in Slots : ExpirationUpdate(s)

Spec == Init /\ [][Next]_vars

\* SpecSeq: one request at a time, on worker w1, with a finer clock (half
\* an hour, an hour, and half an hour to midnight) and malformed dates.
SeqSlots == {"w1"}
SeqInstants == InstantsOf({0, 1800, 3600, 84600})
SeqDateInputs == {EmptyDate, BadDate} \cup {IsoDate(d) : d \in 0..MaxDay}

NextSeq ==
    \/ \E s \in SeqSlots : Return(s)
    \/ \E t \in SeqInstants : Tick(t)
    \/ \E s \in SeqSlots, raw \in RawUIDs : ScanStart(s, raw)
    \/ \E s \in SeqSlots : ScanExpire(s)
    \/ \E s \in SeqSlots : ScanCooldown(s)
    \/ \E s \in SeqSlots : ScanCredit(s)
    \/ \E s \in SeqSlots, raw \in RawUIDs, c \in CreditInputs, e \in SeqDateInputs :
          CreateStart(s, raw, c, e)
    \/ \E s \in SeqSlots : CreateSet(s)
    \/ \E s \in SeqSlots, raw \in RawUIDs : DeleteStart(s, raw)
    \/ \E s \in SeqSlots : DeleteDo(s)
    \/ \E s \in SeqSlots, raw \in RawUIDs, a \in AmountInputs : TopUpStart(s, raw, a)
    \/ \E s \in SeqSlots : TopUpCredits(s)
    \/ \E s \in SeqSlots : TopUpStatus(s)
    \/ \E s \in SeqSlots, raw \in RawUIDs, st \in StatusInputs : StatusStart(s, raw, st)
    \/ \E s \in SeqSlots : StatusUpdate(s)
    \/ \E s \in SeqSlots, raw \in RawUIDs, e \in SeqDateInputs : ExpirationStart(s, raw, e)
    \/ \E s \in SeqSlots : ExpirationUpdate(s)

SpecSeq == Init /\ [][NextSeq]_vars

\* The cards in the store.
Cards == {u \in UIDs : store[u].exists}

\* SpecRace: a card is created, then each of the two workers serves one
\* scan and keeps its answer.  No administrative request follows the
\* create.
NextRace ==
    \/ \E t \in Instants : Tick(t)
    \/ \E raw \in RawUIDs, c \in 0..MaxCredits, e \in DateInputs :
          AllIdle /\ Cards = {} /\ CreateStart("w1", raw, c, e)
    \/ CreateSet("w1")
    \/ req["w1"].op = "create" /\ Return("w1")
    \/ \E s \in Slots, raw \in RawUIDs : Cards # {} /\ ScanStart(s, raw)
    \/ \E s \in Slots : ScanExpire(s)
    \/ \E s \in Slots : ScanCooldown(s)
    \/ \E s \in Slots : ScanCredit(s)

SpecRace == Init /\ [][NextRace]_vars

\* SpecLedger: a card is created with LedgerStart credits, then each of the
\* two workers serves one scan or one top-up of it and keeps its answer.
LedgerStart == 1

NextLedger ==
    \/ \E t \in Instants : Tick(t)
    \/ \E raw \in RawUIDs, e \in DateInputs :
          AllIdle /\ Cards = {} /\ CreateStart("w1", raw, LedgerStart, e)
    \/ CreateSet("w1")
    \/ req["w1"].op = "create" /\ Return("w1")
    \/ \E s \in Slots, raw \in RawUIDs : Cards # {} /\ ScanStart(s, raw)
    \/ \E s \in Slots : ScanExpire(s)
    \/ \E s \in Slots : ScanCooldown(s)
    \/ \E s \in Slots : ScanCredit(s)
    \/ \E s \in Slots, raw \in RawUIDs, a \in AmountInputs :
          Cards # {} /\ TopUpStart(s, raw, a)
    \/ \E s \in Slots : TopUpCredits(s)
    \/ \E s \in Slots : TopUpStatus(s)

SpecLedger == Init /\ [][NextLedger]_vars

\* SpecClient: the three threads of the terminal (ping loop, reader loop
\* with its callbacks, GUI) and the cards held to the reader; the server
\* is seen only through what ping and validate_card return.
NextClient ==
    \/ \E code \in PingCodes, net \in NetOutcomes : PingLoop(code, net)
    \/ \E t \in Targets : Present(t)
    \/ Remove
    \/ SenseCard
    \/ \E raised \in BOOLEAN : SenseEmpty(raised)
    \/ \E result \in TermResults : ValidateReturns(result)
    \/ PublishStatus
    \/ CallbackRaises
    \/ ReadCardStatus
    \/ ReadLastValidation

SpecClient == Init /\ [][NextClient]_vars

\* SpecPing: start() and stop() of ServerCommunication called one after
\* the other by one thread, and the ping threads they leave behind.
NextPing ==
    \/ Start
    \/ StopBegin
    \/ JoinReturns
    \/ \E i \in Loops : LoopCheck(i)
    \/ \E i \in Loops, code \in PingCodes, net \in NetOutcomes : LoopPing(i, code, net)
    \/ \E i \in Loops : LoopWake(i)

SpecPing == Init /\ [][NextPing]_vars

\* SpecMig: one run of the migration script over a cards.json of any
\* size up to MaxCards.
NextMig ==
    \/ \E n \in 0..MaxCards : MigLoad(n)
    \/ MigSet
    \/ MigCheck
    \/ MigFinal

SpecMig == Init /\ [][NextMig]_vars

\* SpecTerm: one exchange at a time between a client and the server, seen
\* from both ends.  Requests carry any of the headers below, store calls of
\* a scan may raise, the network may lose the answer, and the terminal
\* shows what validate_card returned until the card is taken away.
AuthInputs == {NoHeader, Header(<<>>), Header(<<"Bearer">>),
               Header(<<"Bearer", "t1">>), Header(<<"bearer", "t2">>),
               Header(<<"Basic", "t1">>), Header(<<"Bearer", "t1", "x">>)}

NextTerm ==
    \/ \E t \in Instants : Tick(t)
    \/ \E raw \in RawUIDs, c \in CreditInputs, e \in DateInputs :
          CreateStart("w1", raw, c, e)
    \/ CreateSet("w1")
    \/ \E raw \in RawUIDs, st \in StatusInputs : StatusStart("w1", raw, st)
    \/ StatusUpdate("w1")
    \/ \E h \in AuthInputs, raw \in RawUIDs : ScanRequest("w1", h, raw)
    \/ \E h \in AuthInputs, line \in BOOLEAN : PingRequest("w1", h, line)
    \/ \E raw \in RawUIDs : ScanGetFault("w1", raw)
    \/ ScanExpire("w1")
    \/ ScanExpireFault("w1")
    \/ ScanCooldown("w1")
    \/ ScanCredit("w1")
    \/ ScanCreditFault("w1")
    \/ \E net \in NetOutcomes : Deliver("w1", net)
    \/ (req["w1"].op = "scan" => req["w1"].result # NoResult) /\ Return("w1")

SpecTerm == Init /\ [][NextTerm]_vars

\* SpecRT: the round trip.  A card is created with RoundTripCredits credits
\* and an expiration date in the future; it is then scanned again and
\* again, one scan at a time, each scan at least one cooldown after the
\* last accepted one.  nscans counts the scans answered.
MaxScans == RoundTripCredits + 2
RTReady(u) ==
    /\ store[u].exists
    /\ store[u].last_scan = NoScan \/ clock - store[u].last_scan >= Cooldown

NextRT ==
    \/ \E raw \in RawUIDs :
          AllIdle /\ Cards = {} /\ nscans = 0
          /\ CreateStart("w1", raw, RoundTripCredits, IsoDate(MaxDay))
    \/ CreateSet("w1")
    \/ Return("w1")
    \/ /\ AllIdle /\ clock + Cooldown <= MaxScans * Cooldown
       /\ Tick(clock + Cooldown)
    \/ \E raw \in RawUIDs :
          nscans < MaxScans /\ RTReady(Upper(raw)) /\ ScanStart("w1", raw)
    \/ ScanExpire("w1")
    \/ ScanCooldown("w1")
    \/ ScanCreditCounted("w1")

SpecRT == Init /\ [][NextRT]_vars

\* ================================================================ claims

\* Worker s takes a step of scan_card_info.
ScanStep(s) ==
    /\ pc'[s] # pc[s]
    /\ \/ pc[s] \in {"scan_expire", "scan_cooldown", "scan_credit"}
       \/ pc[s] = "idle" /\ req'[s].op = "scan"

\* A scan that has answered.
ScanDone(s) == pc[s] = "done" /\ req[s].op = "scan"

\* ---------------------------------------------------------------- C1
\* C1: two scans of the same UID that both read the card VALID with
\* credits == 1 (they race) never both answer VALID, and the balance does
\* not go negative.
C1_OneCreditOneTrip ==
    \A s, t \in Slots :
        ( /\ s # t
          /\ ScanDone(s) /\ ScanDone(t)
          /\ req[s].uid = req[t].uid
          /\ req[s].card_data.exists /\ req[t].card_data.exists
          /\ req[s].card_data.status = "VALID" /\ req[t].card_data.status = "VALID"
          /\ req[s].card_data.credits = 1 /\ req[t].card_data.credits = 1 )
        => /\ ~(req[s].resp.status = "VALID" /\ req[t].resp.status = "VALID")
           /\ store[req[s].uid].credits >= 0

C3_ScanWritesOnlyIfUnchanged ==
    \A s \in Slots : ScanDone(s) /\ req[s].wrote # "" => ~req[s].stalewrite

\* --------------------------------------------------------------- C10
\* C10: no step of a scan changes the set of UIDs in the store: a scan
\* neither creates a record (also not one deleted between its read and its
\* write) nor deletes one.
C10_ScanKeepsUIDs ==
    [][\A s \in Slots : ScanStep(s) => Cards' = Cards]_vars

\* A scan read a card, the card was deleted, and the scan's write failed:
\* the card is still gone.
C10_Witness ==
    \E s \in Slots :
        /\ ScanDone(s)
        /\ req[s].card_data.exists
        /\ req[s].stale
        /\ req[s].resp.code = 500
        /\ ~store[req[s].uid].exists

\* The last step of a scan by worker s: the credit logic and the answer.
ScanAnswers(s) == pc[s] = "scan_credit" /\ pc'[s] = "done"

\* The expiration date e is a well-formed date strictly before the day of t.
PastDate(e, t) == e.fmt = "iso" /\ e.day < t \div SecondsPerDay

\* ---------------------------------------------------------------- C4
\* C4: a scan of a card read with status VALID, credits > 0, no cooldown
\* active at the scan's cooldown check (no last scan, or one at least 3600
\* seconds earlier) and no expiration date before the day of its expiration
\* check answers VALID with credits - 1, and stores credits - 1 and
\* last_scan = now.
C4_ValidScanDeducts ==
    [][\A s \in Slots :
         LET r == req[s]
             cd == r.card_data
         IN ( /\ ScanAnswers(s)
              /\ cd.status = "VALID"
              /\ cd.credits > 0
              /\ (cd.last_scan = NoScan \/ r.nowCool - cd.last_scan >= 3600)
              /\ (r.nowExp = NoTime \/ ~PastDate(cd.expiration_date, r.nowExp)) )
            => /\ req'[s].resp.code = 200
               /\ req'[s].resp.status = "VALID"
               /\ req'[s].resp.credits = cd.credits - 1
               /\ store'[r.uid] = [cd EXCEPT !.credits = cd.credits - 1,
                                            !.last_scan = clock]
      ]_vars

\* A card scanned again exactly one hour after its last accepted scan was
\* charged again.
C4_Witness ==
    \E s \in Slots :
        /\ ScanDone(s)
        /\ req[s].wrote = "deduct"
        /\ req[s].card_data.last_scan # NoScan
        /\ req[s].nowCool - req[s].card_data.last_scan = 3600
        /\ req[s].resp.status = "VALID"
        /\ store[req[s].uid].credits = req[s].card_data.credits - 1

\* ---------------------------------------------------------------- C5
\* C5 as stated: a scan of a VALID card that answers less than 3600 seconds
\* after the card's last accepted scan answers VALID and leaves the stored
\* credits and last-scan timestamp unchanged.
C5_CooldownScanIsFree ==
    [][\A s \in Slots :
         LET r == req[s]
             cd == r.card_data
         IN ( /\ ScanAnswers(s)
              /\ cd.status = "VALID"
              /\ cd.last_scan # NoScan
              /\ clock - cd.last_scan < 3600 )
            => /\ req'[s].resp.status = "VALID"
               /\ store'[r.uid].credits = cd.credits
               /\ store'[r.uid].last_scan = cd.last_scan
      ]_vars

\* C5 as amended: a scan of a VALID card that answers less than 3600
\* seconds after the card's last accepted scan, and whose expiration date
\* is not a date before the current day, answers VALID with the credits it
\* read and writes nothing at all.
C5_CooldownScanIsFreeUnlessExpired ==
    [][\A s \in Slots :
         LET r == req[s]
             cd == r.card_data
         IN ( /\ ScanAnswers(s)
              /\ cd.status = "VALID"
              /\ cd.last_scan # NoScan
              /\ clock - cd.last_scan < 3600
              /\ ~PastDate(cd.expiration_date, clock) )
            => /\ req'[s].resp.code = 200
               /\ req'[s].resp.status = "VALID"
               /\ req'[s].resp.credits = cd.credits
               /\ req'[s].wrote = ""
               /\ store' = store
               /\ store[r.uid] = cd
      ]_vars

\* A card was scanned half an hour after its accepted scan: VALID, no write.
C5_Witness ==
    \E s \in Slots :
        /\ ScanDone(s)
        /\ req[s].card_data.last_scan # NoScan
        /\ req[s].nowCool - req[s].card_data.last_scan = 1800
        /\ req[s].resp.status = "VALID"
        /\ req[s].wrote = ""
        /\ store[req[s].uid] = req[s].card_data

\* ---------------------------------------------------------------- C6
\* C6: a scan of a card read with credits == 0 and status VALID (no cooldown
\* active, not expired) answers INSUFFICIENT_CREDITS and sets the stored
\* status to INVALID.
C6_ZeroCreditsAnswer ==
    \A s \in Slots :
        LET r == req[s]
            cd == r.card_data
        IN ( /\ ScanDone(s)
             /\ cd.exists
             /\ cd.status = "VALID"
             /\ cd.credits = 0
             /\ cd.last_scan = NoScan
             /\ ~Truthy(cd.expiration_date) )
           => /\ r.resp.status = "INSUFFICIENT_CREDITS"
              /\ store[r.uid].status = "INVALID"

\* ---------------------------------------------------------------- C7
\* C7: a scan of a card read with status VALID and an expiration date
\* strictly before the current date sets the stored status to EXPIRED,
\* leaves credits and last_scan as they are, and answers EXPIRED.
C7_ExpiredScan ==
    /\ [][\A s \in Slots :
            LET r == req[s]
                cd == r.card_data
            IN ( /\ pc[s] = "scan_expire" /\ pc'[s] # pc[s]
                 /\ cd.status = "VALID"
                 /\ PastDate(cd.expiration_date, clock) )
               => /\ store'[r.uid] = [cd EXCEPT !.status = "EXPIRED"]
                  /\ req'[s].wrote = "expired"
         ]_vars
    /\ [](\A s \in Slots :
            LET r == req[s]
                cd == r.card_data
            IN ScanDone(s) /\ r.wrote = "expired"
               => /\ r.resp.code = 200
                  /\ r.resp.status = "EXPIRED"
                  /\ r.resp.credits = cd.credits
                  /\ store[r.uid] = [cd EXCEPT !.status = "EXPIRED"])

\* A card with credits left, inside its cooldown window, was found expired.
C7_Witness ==
    \E s \in Slots :
        /\ ScanDone(s)
        /\ req[s].wrote = "expired"
        /\ req[s].resp.status = "EXPIRED"
        /\ req[s].card_data.credits > 0
        /\ req[s].card_data.last_scan # NoScan
        /\ clock - req[s].card_data.last_scan < 3600
        /\ store[req[s].uid].credits = req[s].card_data.credits

\* ---------------------------------------------------------------- C9
\* C9: a scan of a UID that has no record answers 404 with error "Card not
\* found", status INVALID, credits 0 and no expiration date, which the
\* terminal reads as UNKNOWN; the scan takes no further step and the store
\* is not changed.
C9_UnknownCard ==
    /\ [][\A s \in Slots, raw \in RawUIDs :
            ( /\ pc[s] = "idle" /\ pc'[s] # pc[s] /\ req'[s].op = "scan"
              /\ req'[s].uid = Upper(raw)
              /\ ~store[Upper(raw)].exists )
            => pc'[s] = "done" /\ store' = store
         ]_vars
    /\ [](\A s \in Slots :
            ScanDone(s) /\ ~req[s].card_data.exists
            => /\ req[s].resp.code = 404
               /\ req[s].resp.error = "Card not found"
               /\ req[s].resp.status = "INVALID"
               /\ req[s].resp.credits = 0
               /\ req[s].resp.expiration_date.fmt = "null"
               /\ req[s].wrote = ""
               /\ ValidateCard(req[s].resp).status = "UNKNOWN"
               /\ ~ValidateCard(req[s].resp).success)

\* An unknown card was scanned: 404, and there is still no record of it.
C9_Witness ==
    \E s \in Slots :
        /\ ScanDone(s)
        /\ ~req[s].card_data.exists
        /\ req[s].resp.code = 404
        /\ ~store[req[s].uid].exists

\* ---------------------------------------------------------------- C8
\* C8 as stated: after creating a card with RoundTripCredits (10) credits
\* and a future expiration date, each of the first RoundTripCredits - 1
\* scans answers VALID with the balance counting down, and scan number
\* RoundTripCredits (the tenth) answers INSUFFICIENT_CREDITS.
C8_TenthScanDenied ==
    \A s \in Slots :
        ScanDone(s)
        => /\ nscans <= RoundTripCredits - 1
                => /\ req[s].resp.status = "VALID"
                   /\ req[s].resp.credits = RoundTripCredits - nscans
           /\ nscans = RoundTripCredits
                => req[s].resp.status = "INSUFFICIENT_CREDITS"

\* C8 as amended: each of the first RoundTripCredits (ten) scans answers
\* VALID with the balance counting down to 0; the next (eleventh) scan is
\* the first one refused: it does not answer VALID, deducts nothing and
\* leaves the card with 0 credits and status INVALID.
C8_RoundTrip ==
    \A s \in Slots :
        ScanDone(s)
        => LET u == req[s].uid
           IN /\ nscans <= RoundTripCredits
                   => /\ req[s].resp.code = 200
                      /\ req[s].resp.status = "VALID"
                      /\ req[s].resp.credits = RoundTripCredits - nscans
                      /\ store[u].credits = RoundTripCredits - nscans
                      /\ store[u].status = "VALID"
              /\ nscans = RoundTripCredits + 1
                   => /\ req[s].resp.code = 200
                      /\ req[s].resp.status # "VALID"
                      /\ req[s].resp.credits = 0
                      /\ store[u].credits = 0
                      /\ store[u].status = "INVALID"

\* The tenth scan took the last credit and the eleventh has been refused.
C8_Witness ==
    \E s \in Slots :
        /\ ScanDone(s)
        /\ nscans = RoundTripCredits + 1
        /\ req[s].resp.status = "INVALID"
        /\ req[s].card_data.credits = 0
        /\ store[req[s].uid].last_scan = RoundTripCredits * Cooldown

\* --------------------------------------------------------------- C11
\* C11: a scan of a card whose stored status is not VALID writes nothing
\* at any of its steps and answers 200 with that status verbatim and the
\* stored credits, even when the expiration date has passed or the credits
\* are zero.
C11_NonValidScanIsVerbatim ==
    /\ [][\A s \in Slots :
            ScanStep(s) /\ req'[s].card_data.exists
                        /\ req'[s].card_data.status # "VALID"
            => /\ store' = store
               /\ req'[s].wrote = ""
         ]_vars
    /\ [](\A s \in Slots :
            LET r == req[s]
                cd == r.card_data
            IN ScanDone(s) /\ cd.exists /\ cd.status # "VALID"
               => /\ r.resp.code = 200
                  /\ r.resp.status = cd.status
                  /\ r.resp.credits = cd.credits
                  /\ r.resp.expiration_date = cd.expiration_date
                  /\ store[r.uid] = cd)

\* A card set INVALID, with no credits and an expiration date in the past,
\* was scanned: INVALID, nothing written.
C11_Witness ==
    \E s \in Slots :
        /\ ScanDone(s)
        /\ req[s].card_data.status = "INVALID"
        /\ req[s].card_data.credits = 0
        /\ PastDate(req[s].card_data.expiration_date, clock)
        /\ req[s].resp.status = "INVALID"
        /\ store[req[s].uid] = req[s].card_data

\* --------------------------------------------------------------- C12
\* C12: with no administrative request after the card's creation, a step
\* of a scan changes the stored status only from VALID to EXPIRED or from
\* VALID to INVALID; a stored status of INVALID or EXPIRED is never changed
\* by a scan.
C12_ScanStatusOneWay ==
    [][\A s \in Slots :
         LET u == req'[s].uid
         IN ( /\ ScanStep(s)
              /\ store[u].exists
              /\ store'[u].status # store[u].status )
            => /\ store[u].status = "VALID"
               /\ store'[u].status \in {"EXPIRED", "INVALID"}
      ]_vars

\* --------------------------------------------------------------- C13
\* C13: whenever a step gives a stored card the status EXPIRED, the card
\* has an expiration date and that date is strictly before the current
\* date.
C13_ExpiredOnlyWhenPast ==
    [][\A u \in UIDs :
         ( /\ store'[u].exists
           /\ store'[u].status = "EXPIRED"
           /\ ~(store[u].exists /\ store[u].status = "EXPIRED") )
         => PastDate(store'[u].expiration_date, clock)
      ]_vars

\* --------------------------------------------------------------- C14
\* C14: in every interleaving, a create whose UID is present in the store
\* when the create comes to write answers 409 and leaves the stored record
\* as it is (so of two concurrent creates of one UID only one succeeds).
C14_CreateNeverOverwrites ==
    [][\A s \in Slots :
         ( /\ pc[s] = "create_set"
           /\ pc'[s] # pc[s]
           /\ store[req[s].uid].exists )
         => /\ store' = store
            /\ req'[s].resp.code = 409
      ]_vars

\* --------------------------------------------------------------- C15
\* C15: a scan changes the store at most once, and the change is either
\* the status alone (to EXPIRED or INVALID) or the credits together with
\* the last-scan timestamp: no step of a scan stores a deduction without
\* its timestamp, and no scan that has written writes again.
C15_ScanWritesOnce ==
    [][\A s \in Slots :
         LET u == req[s].uid
             d == store[u]
         IN ScanStep(s) /\ store' # store
            => /\ req[s].wrote = ""
               /\ \A v \in UIDs \ {u} : store'[v] = store[v]
               /\ \/ /\ store'[u] = [d EXCEPT !.status = store'[u].status]
                     /\ store'[u].status \in {"EXPIRED", "INVALID"}
                  \/ store'[u] = [d EXCEPT !.credits = req[s].card_data.credits - 1,
                                           !.last_scan = clock]
      ]_vars

\* A scan on the second day deducted a credit: the new balance and the
\* timestamp of that day are stored together.
C15_Witness ==
    \E s \in Slots :
        /\ ScanDone(s)
        /\ req[s].wrote = "deduct"
        /\ clock > 0
        /\ store[req[s].uid].last_scan = clock
        /\ store[req[s].uid].credits = req[s].card_data.credits - 1

\* --------------------------------------------------------------- C16
\* C16: a scan whose write met a record that another request had changed
\* since the scan read it (a conflict on its one and only attempt) is not
\* answered as a success or as a denial: its answer is an error.
C16_ConflictIsNeverAnAnswer ==
    \A s \in Slots :
        ScanDone(s) /\ req[s].stalewrite
        => /\ req[s].resp.code >= 500
           /\ req[s].resp.status \notin {"VALID", "INVALID", "EXPIRED"}

\* --------------------------------------------------------------- C17
\* C17: a scan one of whose store calls raised is answered 500; and every
\* exchange that met a fault (a store call that raised, an answer other
\* than 200, a timeout, a connection error or another exception in the
\* terminal) ends with validate_card returning success False, with status
\* ERROR (UNKNOWN for a 404), and never with the card shown as VALID.
C17_FaultIsNeverValid ==
    \A s \in Slots :
        LET r == req[s]
        IN /\ r.fault = "store"
                => pc[s] = "done" /\ r.resp.code >= 500 /\ r.resp.code <= 599
           /\ r.result # NoResult /\ r.fault # ""
                => /\ ~r.result.success
                   /\ r.result.status = "ERROR"
                   /\ r.card_status = "ERROR"
           /\ r.result # NoResult /\ r.resp.code # 200
                => /\ ~r.result.success
                   /\ r.result.status \in {"ERROR", "UNKNOWN"}
                   /\ r.card_status # "VALID"

\* The update of the credit logic raised on a VALID card with credits
\* left: the terminal got ERROR and the balance is as it was.
C17_Witness ==
    \E s \in Slots :
        /\ req[s].fault = "store"
        /\ req[s].card_data.status = "VALID"
        /\ req[s].card_data.credits > 0
        /\ req[s].result.status = "ERROR"
        /\ ~req[s].result.success
        /\ store[req[s].uid] = req[s].card_data

\* --------------------------------------------------------------- C18
\* The header is exactly a scheme and a token, and the scheme is Bearer.
WellFormedBearer(h) ==
    /\ h.present
    /\ Len(h.words) = 2
    /\ h.words[1] \in {"Bearer", "bearer", "BEARER"}

\* C18: a scanCardInfo or pingStatus request whose Authorization header is
\* missing, has another scheme than Bearer or is not exactly two words is
\* answered 401 at once, with the store neither read nor written; a request
\* with a well-formed Bearer header reaches the handler whatever its token.
C18_BearerTokenGate ==
    [][\A s \in Slots :
         ( /\ pc[s] = "idle" /\ pc'[s] # "idle"
           /\ req'[s].op \in {"scan", "ping"} )
         => IF WellFormedBearer(req'[s].auth)
            THEN req'[s].resp.code # 401
            ELSE /\ pc'[s] = "done"
                 /\ req'[s].resp.code = 401
                 /\ req'[s].card_data = Missing
                 /\ req'[s].wrote = ""
                 /\ store' = store
      ]_vars

\* A scan with a Basic header was turned away although the card it names
\* is in the store.
C18_Witness ==
    \E s \in Slots :
        /\ pc[s] = "done"
        /\ req[s].op = "scan"
        /\ req[s].auth = Header(<<"Basic", "t1">>)
        /\ req[s].resp.code = 401
        /\ req[s].resp.error = "Invalid Authorization scheme"
        /\ Cards # {}

\* --------------------------------------------------------------- C19
\* The statuses of a scan that did not go through: card not recognized,
\* server failure, and the three denials.
FailureStatuses == {"UNKNOWN", "ERROR", "INVALID", "EXPIRED", "INSUFFICIENT_CREDITS"}

\* C19: whenever the terminal shows a scan that ended with one of the
\* failure statuses, its banner differs from the banner of every other
\* failure status and from the idle banner ("Scan your card").
C19_DistinctBanners ==
    \A s \in Slots :
        LET shown == req[s].card_status
        IN req[s].result # NoResult /\ shown \in FailureStatuses
           => /\ DrawBanner(shown) # DrawBanner(IdleStatus)
              /\ \A k \in FailureStatuses \ {shown} : DrawBanner(shown) # DrawBanner(k)

\* --------------------------------------------------------------- C20
\* C20: the expiration check, the cooldown check and the written last-scan
\* timestamp of one scan all use the same reading of the clock.
C20_OneNow ==
    \A s \in Slots :
        ScanDone(s)
        => \A a, b \in {req[s].nowExp, req[s].nowCool, req[s].nowWrite} \ {NoTime} :
              a = b

\* --------------------------------------------------------------- C21
\* C21: every stored expiration_date is absent or empty, or a well-formed
\* YYYY-MM-DD date.
C21_StoredDatesWellFormed ==
    \A u \in UIDs :
        store[u].exists => store[u].expiration_date.fmt \in {"empty", "null", "iso"}

C24_ChecksInOrder ==
    \A s \in Slots :
        LET r == req[s]
            cd == r.card_data
        IN /\ ( /\ ScanDone(s)
                /\ cd.exists
                /\ cd.status = "VALID"
                /\ r.nowExp # NoTime
                /\ PastDate(cd.expiration_date, r.nowExp)
                /\ cd.last_scan # NoScan
                /\ r.nowExp - cd.last_scan < Cooldown )
              => /\ r.resp.code = 200
                 /\ r.resp.status = "EXPIRED"
                 /\ r.resp.credits = cd.credits
                 /\ r.wrote = "expired"
                 /\ r.nowCool = NoTime
                 /\ r.nowWrite = NoTime
                 /\ store[r.uid] = [cd EXCEPT !.status = "EXPIRED"]
           /\ ( /\ ScanDone(s)
                /\ cd.exists
                /\ cd.status = "VALID"
                /\ r.wrote # "expired"
                /\ r.nowCool # NoTime
                /\ r.nowCool - cd.last_scan < Cooldown
                /\ cd.credits = 0 )
              => /\ r.resp.status = "VALID"
                 /\ r.wrote = ""
                 /\ store[r.uid] = cd

\* A card with no credits left, scanned inside its cooldown window on the
\* day after its expiration date: EXPIRED, and only the status was written.
C24_Witness ==
    \E s \in Slots :
        /\ ScanDone(s)
        /\ req[s].card_data.status = "VALID"
        /\ req[s].card_data.credits = 0
        /\ PastDate(req[s].card_data.expiration_date, req[s].nowExp)
        /\ req[s].card_data.last_scan # NoScan
        /\ req[s].nowExp - req[s].card_data.last_scan < Cooldown
        /\ req[s].resp.status = "EXPIRED"
        /\ req[s].nowCool = NoTime
        /\ store[req[s].uid].status = "EXPIRED"

\* --------------------------------------------------------------- C25
\* The instant at which the scan of worker s was taken: its cooldown check,
\* or its expiration check when that check ended the scan.
ScanTime(s) == IF req[s].nowCool # NoTime THEN req[s].nowCool ELSE req[s].nowExp

\* C25 as stated: a VALID card whose last accepted scan brought its balance
\* to 0 is answered VALID with credits 0 and without a write by every scan
\* less than 3600 seconds after that scan, and the first scan at or after
\* 3600 seconds sets its status to INVALID.
C25_EmptyCardThroughCooldown ==
    \A s \in Slots :
        LET r == req[s]
            cd == r.card_data
        IN ( /\ ScanDone(s)
             /\ cd.exists
             /\ cd.status = "VALID"
             /\ cd.credits = 0
             /\ cd.last_scan # NoScan )
           => IF ScanTime(s) - cd.last_scan < Cooldown
              THEN /\ r.resp.status = "VALID"
                   /\ r.resp.credits = 0
                   /\ r.wrote = ""
                   /\ store[r.uid] = cd
              ELSE store[r.uid].status = "INVALID"

\* C25 as amended: the same, for as long as the card's expiration date is
\* not a date before the day of the scan's expiration check (a scan after
\* that date answers EXPIRED, inside the window and after it).
C25_EmptyCardThroughCooldownUnlessExpired ==
    \A s \in Slots :
        LET r == req[s]
            cd == r.card_data
        IN ( /\ ScanDone(s)
             /\ cd.exists
             /\ cd.status = "VALID"
             /\ cd.credits = 0
             /\ cd.last_scan # NoScan
             /\ ~(r.nowExp # NoTime /\ PastDate(cd.expiration_date, r.nowExp)) )
           => /\ r.nowCool # NoTime
              /\ r.resp.code = 200
              /\ r.resp.credits = 0
              /\ IF r.nowCool - cd.last_scan < Cooldown
                 THEN /\ r.resp.status = "VALID"
                      /\ r.wrote = ""
                      /\ store[r.uid] = cd
                 ELSE /\ r.resp.status # "VALID"
                      /\ r.wrote = "invalid"
                      /\ store[r.uid] = [cd EXCEPT !.status = "INVALID"]

\* A card emptied by its last accepted scan was scanned exactly one hour
\* later: its status is INVALID now.
C25_Witness ==
    \E s \in Slots :
        /\ ScanDone(s)
        /\ req[s].card_data.status = "VALID"
        /\ req[s].card_data.credits = 0
        /\ req[s].card_data.last_scan # NoScan
        /\ req[s].nowCool - req[s].card_data.last_scan = Cooldown
        /\ req[s].wrote = "invalid"
        /\ store[req[s].uid].status = "INVALID"

\* --------------------------------------------------------------- C26
\* A step of an administrative request (set-status, top-up, create,
\* set-expiration) by worker s.
AdminStep(s) ==
    /\ pc'[s] # pc[s]
    /\ req'[s].op \in {"status", "topup", "create", "expiration"}

\* The stored card d is VALID although its expiration date is before the
\* day of t.
ValidPastDate(d, t) == d.exists /\ d.status = "VALID" /\ PastDate(d.expiration_date, t)

\* C26: no step of an administrative request makes a stored card VALID with
\* an expiration date strictly before the current date; and a set-status
\* to VALID on a card whose expiration date has passed is answered 400 and
\* changes nothing.
C26_AdminNeverValidatesExpired ==
    /\ [][\A s \in Slots, u \in UIDs :
            AdminStep(s) /\ ValidPastDate(store'[u], clock)
            => ValidPastDate(store[u], clock)
         ]_vars
    /\ [][\A s \in Slots :
            LET u == req'[s].uid
            IN ( /\ pc[s] = "idle" /\ pc'[s] # pc[s]
                 /\ req'[s].op = "status"
                 /\ req'[s].new_status = "VALID"
                 /\ store[u].exists
                 /\ PastDate(store[u].expiration_date, clock) )
               => /\ pc'[s] = "done"
                  /\ req'[s].resp.code = 400
                  /\ store' = store
         ]_vars

\* --------------------------------------------------------------- C27
\* What the answered request of worker s added to the credits of card u: a
\* completed top-up adds its amount.
Credited(s, u) ==
    IF pc[s] = "done" /\ req[s].op = "topup" /\ req[s].uid = u /\ req[s].resp.code = 200
    THEN req[s].amount ELSE 0

\* What the answered request of worker s took from the credits of card u: a
\* scan answered VALID with a deduction takes one.
Deducted(s, u) ==
    IF /\ pc[s] = "done" /\ req[s].op = "scan" /\ req[s].uid = u
       /\ req[s].resp.code = 200 /\ req[s].resp.status = "VALID"
       /\ req[s].wrote = "deduct"
    THEN 1 ELSE 0

\* C27: once every request has been answered, the stored credits of the
\* card are its initial credits plus the amounts of the completed top-ups
\* minus the number of scans answered VALID with a deduction, whatever the
\* interleaving of the requests.
C27_LedgerConserved ==
    (\A s \in Slots : pc[s] \in {"idle", "done"})
    => \A u \in Cards :
          store[u].credits = LedgerStart + Credited("w1", u) + Credited("w2", u)
                                         - Deducted("w1", u) - Deducted("w2", u)

\* --------------------------------------------------------------- C28
\* C28: whenever a scan answers VALID, the expiration date stored for the
\* card when the scan read it is absent or empty, or is a date not before
\* the day of the scan.
C28_ValidAnswerNotExpired ==
    \A s \in Slots :
        LET r == req[s]
            e == r.card_data.expiration_date
        IN ScanDone(s) /\ r.resp.code = 200 /\ r.resp.status = "VALID"
           => \/ ~Truthy(e)
              \/ /\ e.fmt = "iso"
                 /\ r.nowExp # NoTime
                 /\ e.day >= DateOf(r.nowExp)

\* --------------------------------------------------------------- C23
\* C23: is_ready() is True only when at least two pings in a row have
\* succeeded since the last failed ping (or since start).
C23_ReadyAfterTwoPings == IsReady => term.consecutive_pings >= 2

\* --------------------------------------------------------------- C29
\* The values of card_status that are an answer of the server
\* (screens.py:275-280).
ServerOutcomes == {"VALID", "INVALID", "EXPIRED", "INSUFFICIENT_CREDITS"}

\* C29: whenever a frame of the GUI thread has read a card_status that is
\* a server outcome, the last_validation it then read is the result of the
\* scan that set that card_status; and from the detection of a card until
\* its result is stored and published card_status is LOADING.
C29_FrameShowsOneScan ==
    /\ ( term.gpc = "drawn" /\ term.seen_status \in ServerOutcomes )
       => term.seen_validation_scan = term.seen_status_scan
    /\ term.rpc \in {"validate", "publish"} => term.card_status = "LOADING"

\* --------------------------------------------------------------- C30
\* C30: while a card stays in the field card_callback is called exactly
\* once for it (once the reader has polled, and no second time, also when
\* the callback raised); card_removed_callback is called only for a card
\* that was detected and exactly once for each removal of such a card: not
\* more often, and every removal has been answered when the reader has
\* polled the empty field and before card_callback is called again.
C30_OneCallbackPerPresence ==
    /\ [](term.calls <= 1)
    /\ [](term.sensed /\ term.field # NoTarget /\ term.rpc = "sense" => term.calls = 1)
    /\ [](term.owed >= 0)
    /\ [](term.sensed /\ term.field = NoTarget => term.owed <= 0)
    /\ [][term'.scan > term.scan => term.owed = 0]_vars
\* --------------------------------------------------------------- C31
\* The ping threads that are in the body of the loop, about to ping and
\* to write status["connected"] and status["ready"].
LoopsPinging == {i \in Loops : term.loop[i] = "ping"}

\* C31: after any sequence of start() and stop() calls, each made after
\* the one before has returned, at most one ping loop is pinging and
\* writing the status.
C31_OnePingLoop == Cardinality(LoopsPinging) <= 1


\* --------------------------------------------------------------- C32
\* C32: the migration writes every card exactly once: every card queued
\* is either in a committed batch or in the current one; a batch is
\* committed when it holds 400 writes, so none exceeds the limit of 500;
\* no empty batch is committed; and when the script is done the last,
\* partial batch has been committed, nothing is left queued and the cards
\* committed are the cards loaded.
C32_MigrationCommitsAll ==
    /\ [](/\ mig.committed + mig.queued = mig.count
          /\ mig.count <= mig.n
          /\ mig.queued <= BatchEvery
          /\ mig.largest <= BatchLimit)
    /\ [][mig'.commits > mig.commits
          => /\ mig.queued >= 1
             /\ mig.queued = BatchEvery \/ mig'.at = "done"
             /\ mig'.committed = mig.committed + mig.queued
             /\ mig'.queued = 0
         ]_vars
    /\ [](mig.at = "done"
          => /\ mig.count = mig.n
             /\ mig.committed = mig.n
             /\ mig.queued = 0
             /\ mig.commits = (mig.n + BatchEvery - 1) \div BatchEvery)

\* A file of two full batches and one card more has been migrated in three
\* commits, the largest of 400 writes.
C32_Witness ==
    /\ mig.at = "done"
    /\ mig.n = 2 * BatchEvery + 1
    /\ mig.commits = 3
    /\ mig.largest = BatchEvery
    /\ mig.committed = mig.n
====
